---- MODULE Spec2Model ----
(***************************************************************************)
(* Model of the sheet packing engine of sheetgood-cuts-react:              *)
(* class Sheet and optimizePlacement (packing.ts), driven either by one    *)
(* optimizePlacement call (Spec) or by arbitrary calls on one Sheet        *)
(* (SheetSpec).                                                            *)
(***************************************************************************)
EXTENDS Integers, Sequences, FiniteSets, TLC

\* ------------------------------------------------------------------------
\* Program constants (types.ts)
SHEET_LENGTH == 96
SHEET_WIDTH == 48

\* ------------------------------------------------------------------------
\* Bounds of the model
MaxSpecs == 2
MaxQuantity == 2
MaxRects == 3
MaxSquares == 20
MaxCalls == 3
MaxBoards == 2
MaxReading == 1
MaxId == 3
MaxMixed == 3

\* Lengths and widths a board of the input may have (inches).
Dims == {24, 36, 48, 60, 100}

\* board.rotationAllowed as the caller may leave it: true, false or absent.
RotationValues == {"true", "false", "undefined"}

\* Extra arguments a caller passes after `boards`: none, or a sheet length
\* and width (packing.test.ts 'respects custom sheet size passed in').
SheetArgs == {<< >>, <<50, 40>>}

\* The value null / "no object yet".
Null == [null |-> TRUE]

VARIABLES
    boards,        \* the caller's list of Board records
    args,          \* the extra arguments of the call
    allBoards,     \* the expanded, sorted list of {board, originalIndex}
    next,          \* position in allBoards of the unit the for loop takes next
    currentSheet,  \* the Sheet being filled: [width, height, usedRects]
    placedBoards,  \* the PlacedBoard list of the current sheet
    sheets,        \* the SheetLayout list built so far
    result,        \* the returned OptimizationResult, Null before the return
    pc,            \* "call", "loop", "done"; "sheet" under SheetSpec
    call           \* SheetSpec: the last call made on the Sheet

vars == <<boards, args, allBoards, next, currentSheet, placedBoards, sheets,
          result, pc, call>>

\* ------------------------------------------------------------------------
\* class Sheet

\* new Sheet(width, height)
NewSheet(width, height) == [width |-> width, height |-> height, usedRects |-> << >>]

\* Variant: the last comparison forgets the height of the first rectangle.
rectsOverlap_NoHeight(x1, y1, w1, h1, x2, y2, w2, h2) ==
    x1 < x2 + w2 /\ x1 + w1 > x2 /\ y1 < y2 + h2 /\ y1 > y2

\* Variant: the comparisons are not strict.
rectsOverlap_Closed(x1, y1, w1, h1, x2, y2, w2, h2) ==
    x1 <= x2 + w2 /\ x1 + w1 >= x2 /\ y1 <= y2 + h2 /\ y1 + h1 >= y2

rectsOverlap(x1, y1, w1, h1, x2, y2, w2, h2) ==
    x1 < x2 + w2 /\ x1 + w1 > x2 /\ y1 < y2 + h2 /\ y1 + h1 > y2

\* Variant: the bounds test is left out, only overlaps are looked for.
isSpaceAvailable_NoBounds(sheet, x, y, w, h) ==
    \A i \in 1..Len(sheet.usedRects) :
        LET rect == sheet.usedRects[i]
        IN  ~(/\ x < rect.x + rect.width /\ x + w > rect.x
              /\ y < rect.y + rect.height /\ y + h > rect.y)

isSpaceAvailable(sheet, x, y, w, h) ==
    IF x < 0 \/ y < 0 \/ x + w > sheet.width \/ y + h > sheet.height
    THEN FALSE
    ELSE \A i \in 1..Len(sheet.usedRects) :
            LET rect == sheet.usedRects[i]
            IN  ~rectsOverlap(x, y, w, h, rect.x, rect.y, rect.width, rect.height)

\* Variant: only the right edge of a rectangle yields a candidate.
RECURSIVE edgeCandidates_RightOnly(_, _, _, _)
edgeCandidates_RightOnly(sheet, w, h, i) ==
    IF i > Len(sheet.usedRects) THEN << >>
    ELSE LET rect == sheet.usedRects[i]
             right == IF rect.x + rect.width + w <= sheet.width
                      THEN << [x |-> rect.x + rect.width, y |-> rect.y] >>
                      ELSE << >>
         IN  right \o edgeCandidates_RightOnly(sheet, w, h, i + 1)

\* The candidates pushed for usedRects[i..]: right edge, then top edge.
RECURSIVE edgeCandidates(_, _, _, _)
edgeCandidates(sheet, w, h, i) ==
    IF i > Len(sheet.usedRects) THEN << >>
    ELSE LET rect == sheet.usedRects[i]
             right == IF rect.x + rect.width + w <= sheet.width
                      THEN << [x |-> rect.x + rect.width, y |-> rect.y] >>
                      ELSE << >>
             top ==   IF rect.y + rect.height + h <= sheet.height
                      THEN << [x |-> rect.x, y |-> rect.y + rect.height] >>
                      ELSE << >>
         IN  right \o top \o edgeCandidates(sheet, w, h, i + 1)

\* Variant: the comparator orders by x first, then by y.
compareCandidates_XFirst(a, b) == IF a.x # b.x THEN a.x - b.x ELSE a.y - b.y

\* The comparator (a, b) => a.y !== b.y ? a.y - b.y : a.x - b.x
compareCandidates(a, b) == IF a.y # b.y THEN a.y - b.y ELSE a.x - b.x

\* Array.prototype.sort is stable: c goes after every element that does not
\* compare greater than it.
RECURSIVE insertCandidate(_, _)
insertCandidate(sorted, c) ==
    IF sorted = << >> THEN << c >>
    ELSE IF compareCandidates(Head(sorted), c) <= 0
         THEN << Head(sorted) >> \o insertCandidate(Tail(sorted), c)
         ELSE << c >> \o sorted

RECURSIVE sortCandidates(_)
sortCandidates(cs) ==
    IF cs = << >> THEN << >>
    ELSE insertCandidate(sortCandidates(SubSeq(cs, 1, Len(cs) - 1)), cs[Len(cs)])

\* Variant: the origin is not among the candidates.
candidates_NoOrigin(sheet, w, h) ==
    sortCandidates(edgeCandidates(sheet, w, h, 1))

\* The candidate list of findSpace after its sort.
candidates(sheet, w, h) ==
    sortCandidates(<< [x |-> 0, y |-> 0] >> \o edgeCandidates(sheet, w, h, 1))

\* Variant: only the first candidate of the sorted list is tested.
firstAvailable_HeadOnly(sheet, cs, w, h) ==
    IF cs = << >> THEN Null
    ELSE IF isSpaceAvailable(sheet, Head(cs).x, Head(cs).y, w, h)
         THEN [x |-> Head(cs).x, y |-> Head(cs).y, width |-> w, height |-> h]
         ELSE Null

RECURSIVE firstAvailable(_, _, _, _)
firstAvailable(sheet, cs, w, h) ==
    IF cs = << >> THEN Null
    ELSE IF isSpaceAvailable(sheet, Head(cs).x, Head(cs).y, w, h)
         THEN [x |-> Head(cs).x, y |-> Head(cs).y, width |-> w, height |-> h]
         ELSE firstAvailable(sheet, Tail(cs), w, h)

findSpace(sheet, w, h) ==
    IF w > sheet.width \/ h > sheet.height THEN Null
    ELSE firstAvailable(sheet, candidates(sheet, w, h), w, h)

\* usedRects.push(space)
pushRect(sheet, space) == [sheet EXCEPT !.usedRects = Append(@, space)]

\* Variant: the rotated attempt commits the rectangle with unswapped extents.
placeBoard_PushUnswapped(sheet, boardLength, boardWidth, rotationAllowed) ==
    LET space == findSpace(sheet, boardLength, boardWidth)
    IN  IF space # Null
        THEN [sheet |-> pushRect(sheet, space),
              result |-> [position |-> space, rotated |-> FALSE]]
        ELSE LET spaceR == IF rotationAllowed
                           THEN findSpace(sheet, boardWidth, boardLength)
                           ELSE Null
             IN  IF spaceR # Null
                 THEN [sheet |-> pushRect(sheet,
                                    [spaceR EXCEPT !.width = boardLength,
                                                   !.height = boardWidth]),
                       result |-> [position |-> spaceR, rotated |-> TRUE]]
                 ELSE [sheet |-> sheet, result |-> Null]

\* Variant: the rotated attempt reports rotated: false.
placeBoard_RotatedUnflagged(sheet, boardLength, boardWidth, rotationAllowed) ==
    LET space == findSpace(sheet, boardLength, boardWidth)
    IN  IF space # Null
        THEN [sheet |-> pushRect(sheet, space),
              result |-> [position |-> space, rotated |-> FALSE]]
        ELSE LET spaceR == IF rotationAllowed
                           THEN findSpace(sheet, boardWidth, boardLength)
                           ELSE Null
             IN  IF spaceR # Null
                 THEN [sheet |-> pushRect(sheet, spaceR),
                       result |-> [position |-> spaceR, rotated |-> FALSE]]
                 ELSE [sheet |-> sheet, result |-> Null]

\* Variant: the swapped orientation is tried first when rotation is allowed.
placeBoard_RotatedFirst(sheet, boardLength, boardWidth, rotationAllowed) ==
    LET spaceR == IF rotationAllowed
                  THEN findSpace(sheet, boardWidth, boardLength)
                  ELSE Null
    IN  IF spaceR # Null
        THEN [sheet |-> pushRect(sheet, spaceR),
              result |-> [position |-> spaceR, rotated |-> TRUE]]
        ELSE LET space == findSpace(sheet, boardLength, boardWidth)
             IN  IF space # Null
                 THEN [sheet |-> pushRect(sheet, space),
                       result |-> [position |-> space, rotated |-> FALSE]]
                 ELSE [sheet |-> sheet, result |-> Null]

\* placeBoard returns `result` and leaves the sheet as `sheet`.
placeBoard(sheet, boardLength, boardWidth, rotationAllowed) ==
    LET space == findSpace(sheet, boardLength, boardWidth)
    IN  IF space # Null
        THEN [sheet |-> pushRect(sheet, space),
              result |-> [position |-> space, rotated |-> FALSE]]
        ELSE LET spaceR == IF rotationAllowed
                           THEN findSpace(sheet, boardWidth, boardLength)
                           ELSE Null
             IN  IF spaceR # Null
                 THEN [sheet |-> pushRect(sheet, spaceR),
                       result |-> [position |-> spaceR, rotated |-> TRUE]]
                 ELSE [sheet |-> sheet, result |-> Null]

RECURSIVE usedArea(_)
usedArea(rects) ==
    IF rects = << >> THEN 0
    ELSE usedArea(SubSeq(rects, 1, Len(rects) - 1))
         + rects[Len(rects)].width * rects[Len(rects)].height

\* Variant: the sheet area is taken as width x width.
calculateWaste_Square(sheet) == sheet.width * sheet.width - usedArea(sheet.usedRects)

calculateWaste(sheet) == sheet.width * sheet.height - usedArea(sheet.usedRects)

\* ------------------------------------------------------------------------
\* optimizePlacement

\* Variant: only an explicit false forbids rotation.
ToBoolean_UnlessFalse(v) == v # "false"

\* !!board.rotationAllowed
ToBoolean(v) == v = "true"

\* Variant: the loop runs while i <= board.quantity.
RECURSIVE copies_Inclusive(_, _, _)
copies_Inclusive(board, idx, n) ==
    IF n <= 0 THEN << [board |-> board, originalIndex |-> idx] >>
    ELSE << [board |-> board, originalIndex |-> idx] >>
           \o copies_Inclusive(board, idx, n - 1)

\* for (let i = 0; i < board.quantity; i++) allBoards.push({board, originalIndex})
RECURSIVE copies(_, _, _)
copies(board, idx, n) ==
    IF n <= 0 THEN << >>
    ELSE << [board |-> board, originalIndex |-> idx] >> \o copies(board, idx, n - 1)

\* boards.forEach((board, idx) => ...), from the i-th board on
RECURSIVE expandFrom(_, _)
expandFrom(bs, i) ==
    IF i > Len(bs) THEN << >>
    ELSE copies(bs[i], i - 1, bs[i].quantity) \o expandFrom(bs, i + 1)

\* Variant: the comparator returns areaA - areaB.
compareArea_Ascending(a, b) ==
    a.board.length * a.board.width - b.board.length * b.board.width

\* The comparator (a, b) => areaB - areaA
compareArea(a, b) == b.board.length * b.board.width - a.board.length * a.board.width

RECURSIVE insertUnit(_, _)
insertUnit(sorted, u) ==
    IF sorted = << >> THEN << u >>
    ELSE IF compareArea(Head(sorted), u) <= 0
         THEN << Head(sorted) >> \o insertUnit(Tail(sorted), u)
         ELSE << u >> \o sorted

RECURSIVE sortUnits(_)
sortUnits(us) ==
    IF us = << >> THEN << >>
    ELSE insertUnit(sortUnits(SubSeq(us, 1, Len(us) - 1)), us[Len(us)])

\* { board, x, y, rotated } pushed on placedBoards
placed(board, res) ==
    [board |-> board, x |-> res.position.x, y |-> res.position.y,
     rotated |-> res.rotated]

\* Variant: the reduction adds one per sheet instead of sheet.boards.length.
RECURSIVE sumBoards_CountSheets(_)
sumBoards_CountSheets(ss) ==
    IF ss = << >> THEN 0
    ELSE sumBoards_CountSheets(SubSeq(ss, 1, Len(ss) - 1)) + 1

RECURSIVE sumBoards(_)
sumBoards(ss) ==
    IF ss = << >> THEN 0
    ELSE sumBoards(SubSeq(ss, 1, Len(ss) - 1)) + Len(ss[Len(ss)].boards)

RECURSIVE sumWaste(_)
sumWaste(ss) ==
    IF ss = << >> THEN 0
    ELSE sumWaste(SubSeq(ss, 1, Len(ss) - 1)) + ss[Len(ss)].waste

\* The object optimizePlacement returns for a final `sheets` list.
statistics(ss) ==
    [sheets |-> ss,
     totalBoardsPlaced |-> sumBoards(ss),
     totalWaste |-> sumWaste(ss),
     boardsPerSheet |-> [i \in 1..Len(ss) |-> Len(ss[i].boards)]]

\* result.unplaced as its readers see it (App: result.unplaced && ...):
\* a missing property reads as undefined and lists no board.
unplacedOf(res) == IF "unplaced" \in DOMAIN res THEN res.unplaced ELSE << >>

\* Variant: a closed sheet gets placedBoards itself, not placedBoards.slice(),
\* so every closed sheet shows what the one array holds.
loopBody_NoSlice(st, board) ==
    LET r == placeBoard(st.currentSheet, board.length, board.width,
                        ToBoolean(board.rotationAllowed))
        shared(ss, pbs) == [i \in 1..Len(ss) |-> [ss[i] EXCEPT !.boards = pbs]]
    IN  IF r.result # Null
        THEN [currentSheet |-> r.sheet,
              placedBoards |-> Append(st.placedBoards, placed(board, r.result)),
              sheets |-> shared(st.sheets,
                                Append(st.placedBoards, placed(board, r.result)))]
        ELSE LET closed == IF Len(st.placedBoards) > 0
                           THEN Append(st.sheets,
                                       [boards |-> st.placedBoards,
                                        waste |-> calculateWaste(r.sheet)])
                           ELSE st.sheets
                 r2 == placeBoard(NewSheet(SHEET_LENGTH, SHEET_WIDTH),
                                  board.length, board.width,
                                  ToBoolean(board.rotationAllowed))
                 pbs == IF r2.result # Null
                        THEN << placed(board, r2.result) >>
                        ELSE << >>
             IN  [currentSheet |-> r2.sheet,
                  placedBoards |-> pbs,
                  sheets |-> shared(closed, pbs)]

\* The body of for (const { board } of allBoards) on the loop's state
\* st = [currentSheet, placedBoards, sheets].
loopBody(st, board) ==
    LET r == placeBoard(st.currentSheet, board.length, board.width,
                        ToBoolean(board.rotationAllowed))
    IN  IF r.result # Null
        THEN [currentSheet |-> r.sheet,
              placedBoards |-> Append(st.placedBoards, placed(board, r.result)),
              sheets |-> st.sheets]
        ELSE LET closed == IF Len(st.placedBoards) > 0
                           THEN Append(st.sheets,
                                       [boards |-> st.placedBoards,
                                        waste |-> calculateWaste(r.sheet)])
                           ELSE st.sheets
                 r2 == placeBoard(NewSheet(SHEET_LENGTH, SHEET_WIDTH),
                                  board.length, board.width,
                                  ToBoolean(board.rotationAllowed))
             IN  [currentSheet |-> r2.sheet,
                  placedBoards |-> IF r2.result # Null
                                   THEN << placed(board, r2.result) >>
                                   ELSE << >>,
                  sheets |-> closed]

\* Variant: the final sheet is added whether or not it holds a board.
finalSheets_Always(st) ==
    Append(st.sheets,
           [boards |-> st.placedBoards, waste |-> calculateWaste(st.currentSheet)])

\* The `sheets` list after "Add the final sheet if it has any boards".
finalSheets(st) ==
    IF Len(st.placedBoards) > 0
    THEN Append(st.sheets,
                [boards |-> st.placedBoards,
                 waste |-> calculateWaste(st.currentSheet)])
    ELSE st.sheets

\* The for loop from the k-th unit on.
RECURSIVE runLoop(_, _, _)
runLoop(st, units, k) ==
    IF k > Len(units) THEN st
    ELSE runLoop(loopBody(st, units[k].board), units, k + 1)

\* optimizePlacement(bs) as a function of its argument.
optimizePlacement(bs) ==
    statistics(finalSheets(
        runLoop([currentSheet |-> NewSheet(SHEET_LENGTH, SHEET_WIDTH),
                 placedBoards |-> << >>, sheets |-> << >>],
                sortUnits(expandFrom(bs, 1)), 1)))

\* ------------------------------------------------------------------------
\* Inputs

BoardShapes ==
    [length : Dims, width : Dims, quantity : 0..MaxQuantity,
     rotationAllowed : RotationValues]

\* The list of the boards f[1..n], the id of a board being its position.
boardList(f, n) ==
    [i \in 1..n |->
        [id |-> i, length |-> f[i].length, width |-> f[i].width,
         quantity |-> f[i].quantity, rotationAllowed |-> f[i].rotationAllowed]]

\* ------------------------------------------------------------------------
\* One call optimizePlacement(boards, ...args)

Init ==
    /\ \E n \in 0..MaxSpecs :
          \E f \in [1..n -> BoardShapes] : boards = boardList(f, n)
    /\ args \in SheetArgs
    /\ allBoards = << >>
    /\ next = 1
    /\ currentSheet = Null
    /\ placedBoards = << >>
    /\ sheets = << >>
    /\ result = Null
    /\ pc = "call"
    /\ call = Null

\* Entry of optimizePlacement up to the for loop: expansion, sort and the
\* first sheet. The parameter list is (boards): args is not read.
\* Variant: `sheets` outlives the call instead of starting as [].
Expand_KeepSheets ==
    /\ pc = "call"
    /\ allBoards' = sortUnits(expandFrom(boards, 1))
    /\ currentSheet' = NewSheet(SHEET_LENGTH, SHEET_WIDTH)
    /\ placedBoards' = << >>
    /\ sheets' = sheets
    /\ next' = 1
    /\ pc' = "loop"
    /\ UNCHANGED <<boards, args, result, call>>

Expand ==
    /\ pc = "call"
    /\ allBoards' = sortUnits(expandFrom(boards, 1))
    /\ currentSheet' = NewSheet(SHEET_LENGTH, SHEET_WIDTH)
    /\ placedBoards' = << >>
    /\ sheets' = << >>
    /\ next' = 1
    /\ pc' = "loop"
    /\ UNCHANGED <<boards, args, result, call>>

\* Variant: after a failure the sheet is closed and a new one opened, but
\* the unit is not tried on it.
PlaceUnit_NoRetry ==
    /\ pc = "loop"
    /\ next <= Len(allBoards)
    /\ LET board == allBoards[next].board
           r == placeBoard(currentSheet, board.length, board.width,
                           ToBoolean(board.rotationAllowed))
       IN  IF r.result # Null
           THEN /\ currentSheet' = r.sheet
                /\ placedBoards' = Append(placedBoards, placed(board, r.result))
                /\ sheets' = sheets
           ELSE /\ sheets' = IF Len(placedBoards) > 0
                             THEN Append(sheets,
                                         [boards |-> placedBoards,
                                          waste |-> calculateWaste(r.sheet)])
                             ELSE sheets
                /\ currentSheet' = NewSheet(SHEET_LENGTH, SHEET_WIDTH)
                /\ placedBoards' = << >>
    /\ next' = next + 1
    /\ UNCHANGED <<boards, args, allBoards, result, pc, call>>

\* One iteration of for (const { board } of allBoards).
PlaceUnit ==
    /\ pc = "loop"
    /\ next <= Len(allBoards)
    /\ LET st == loopBody([currentSheet |-> currentSheet,
                           placedBoards |-> placedBoards, sheets |-> sheets],
                          allBoards[next].board)
       IN  /\ currentSheet' = st.currentSheet
           /\ placedBoards' = st.placedBoards
           /\ sheets' = st.sheets
    /\ next' = next + 1
    /\ UNCHANGED <<boards, args, allBoards, result, pc, call>>

\* After the loop: the final sheet, the statistics and the return.
Finish ==
    /\ pc = "loop"
    /\ next > Len(allBoards)
    /\ LET final == finalSheets([currentSheet |-> currentSheet,
                                 placedBoards |-> placedBoards, sheets |-> sheets])
       IN  /\ sheets' = final
           /\ result' = statistics(final)
    /\ pc' = "done"
    /\ UNCHANGED <<boards, args, allBoards, next, currentSheet, placedBoards, call>>

Next == Expand \/ PlaceUnit \/ Finish

Spec == Init /\ [][Next]_vars

\* ------------------------------------------------------------------------
\* Arbitrary calls on one Sheet

SheetInit ==
    /\ boards = << >>
    /\ args = << >>
    /\ allBoards = << >>
    /\ next = 1
    /\ currentSheet = NewSheet(SHEET_LENGTH, SHEET_WIDTH)
    /\ placedBoards = << >>
    /\ sheets = << >>
    /\ result = Null
    /\ pc = "sheet"
    /\ call = Null

\* sheet.placeBoard(boardLength, boardWidth, rotationAllowed)
PlaceBoardCall ==
    /\ pc = "sheet"
    /\ Len(currentSheet.usedRects) < MaxRects
    /\ \E boardLength \in Dims, boardWidth \in Dims, rotationAllowed \in BOOLEAN :
          LET r == placeBoard(currentSheet, boardLength, boardWidth, rotationAllowed)
          IN  /\ currentSheet' = r.sheet
              /\ call' = [op |-> "placeBoard", before |-> currentSheet,
                          boardLength |-> boardLength, boardWidth |-> boardWidth,
                          rotationAllowed |-> rotationAllowed,
                          result |-> r.result]
    /\ UNCHANGED <<boards, args, allBoards, next, placedBoards, sheets, result, pc>>

\* Variant: calculateWaste empties usedRects after summing it.
CalculateWasteCall_Resets ==
    /\ pc = "sheet"
    /\ call' = [op |-> "calculateWaste", before |-> currentSheet,
                result |-> calculateWaste(currentSheet)]
    /\ currentSheet' = [currentSheet EXCEPT !.usedRects = << >>]
    /\ UNCHANGED <<boards, args, allBoards, next, placedBoards, sheets, result, pc>>

\* sheet.calculateWaste()
CalculateWasteCall ==
    /\ pc = "sheet"
    /\ call' = [op |-> "calculateWaste", before |-> currentSheet,
                result |-> calculateWaste(currentSheet)]
    /\ UNCHANGED <<boards, args, allBoards, next, currentSheet, placedBoards,
                   sheets, result, pc>>

SheetNext == PlaceBoardCall \/ CalculateWasteCall

SheetSpec == SheetInit /\ [][SheetNext]_vars

\* Either driver: one optimizePlacement call, or calls on one Sheet.
BothInit == Init \/ SheetInit

BothNext == Next \/ SheetNext

BothSpec == BothInit /\ [][BothNext]_vars

\* ------------------------------------------------------------------------
\* One call on n identical square boards (test 'splits boards across
\* multiple sheets': n = 20, side 24)

\* Sides that divide both SHEET_LENGTH and SHEET_WIDTH.
SquareSides == {12, 16, 24, 48}

squareBoards(n, side) ==
    [i \in 1..n |->
        [id |-> i, length |-> side, width |-> side, quantity |-> 1,
         rotationAllowed |-> "true"]]

SquaresInit ==
    /\ \E n \in 0..MaxSquares : \E side \in SquareSides :
          boards = squareBoards(n, side)
    /\ args = << >>
    /\ allBoards = << >>
    /\ next = 1
    /\ currentSheet = Null
    /\ placedBoards = << >>
    /\ sheets = << >>
    /\ result = Null
    /\ pc = "call"
    /\ call = Null

SquaresSpec == SquaresInit /\ [][Next]_vars

\* ------------------------------------------------------------------------
\* Several calls in a row, as the App makes one whenever its boards or its
\* sheet size change

\* Board lists the calls are made on: none, one board of two units that take
\* a sheet each, a list the sort reorders, and a list with a board that fits
\* in no orientation.
CallBoards ==
    { << >>,
      boardList(<< [length |-> 60, width |-> 48, quantity |-> 2,
                    rotationAllowed |-> "true"] >>, 1),
      boardList(<< [length |-> 36, width |-> 24, quantity |-> 1,
                    rotationAllowed |-> "false"],
                   [length |-> 60, width |-> 48, quantity |-> 2,
                    rotationAllowed |-> "true"] >>, 2),
      boardList(<< [length |-> 100, width |-> 100, quantity |-> 1,
                    rotationAllowed |-> "true"],
                   [length |-> 24, width |-> 60, quantity |-> 1,
                    rotationAllowed |-> "true"] >>, 2) }

\* The calls that have returned so far, kept in `call`.
Returned == IF call = Null THEN {} ELSE call.returned

CallsInit ==
    /\ boards \in CallBoards
    /\ args \in SheetArgs
    /\ allBoards = << >>
    /\ next = 1
    /\ currentSheet = Null
    /\ placedBoards = << >>
    /\ sheets = << >>
    /\ result = Null
    /\ pc = "call"
    /\ call = Null

\* The caller keeps the outcome and calls optimizePlacement again; what the
\* finished call left in its locals is whatever it was.
NextCall ==
    /\ pc = "done"
    /\ Cardinality(Returned) + 1 < MaxCalls
    /\ call' = [op |-> "optimizePlacement",
                returned |-> Returned \cup
                               {[boards |-> boards, args |-> args, result |-> result]}]
    /\ boards' \in CallBoards
    /\ args' \in SheetArgs
    /\ pc' = "call"
    /\ UNCHANGED <<allBoards, next, currentSheet, placedBoards, sheets, result>>

CallsNext == Next \/ NextCall

CallsSpec == CallsInit /\ [][CallsNext]_vars

\* ------------------------------------------------------------------------
\* One call on whatever numbers the form and the sheet-size inputs hand over
\* (parseFloat(e.target.value), parseFloat(e.target.value) || 0)

RawDims == {-12, 0, 24, 60}

RawSheetArgs == {<< >>, <<0, 40>>, <<50, -40>>}

RawShapes ==
    [length : RawDims, width : RawDims, quantity : 1..MaxQuantity,
     rotationAllowed : {"true", "false"}]

RawInit ==
    /\ \E n \in 0..MaxSpecs :
          \E f \in [1..n -> RawShapes] : boards = boardList(f, n)
    /\ args \in RawSheetArgs
    /\ allBoards = << >>
    /\ next = 1
    /\ currentSheet = Null
    /\ placedBoards = << >>
    /\ sheets = << >>
    /\ result = Null
    /\ pc = "call"
    /\ call = Null

RawSpec == RawInit /\ [][Next]_vars

\* ------------------------------------------------------------------------
\* Vocabulary of the properties

Min(a, b) == IF a <= b THEN a ELSE b

Max(a, b) == IF a >= b THEN a ELSE b

RECURSIVE Sum(_)
Sum(s) == IF s = << >> THEN 0 ELSE Head(s) + Sum(Tail(s))

Done == pc = "done"

\* Extents of a placed piece along x and y, after rotation.
ExtX(pb) == IF pb.rotated THEN pb.board.width ELSE pb.board.length

ExtY(pb) == IF pb.rotated THEN pb.board.length ELSE pb.board.width

\* Two rectangles share interior points.
InteriorsMeet(x1, y1, w1, h1, x2, y2, w2, h2) ==
    /\ Max(x1, x2) < Min(x1 + w1, x2 + w2)
    /\ Max(y1, y2) < Min(y1 + h1, y2 + h2)

PiecesOverlap(a, b) ==
    InteriorsMeet(a.x, a.y, ExtX(a), ExtY(a), b.x, b.y, ExtX(b), ExtY(b))

\* A board goes on an empty l x w sheet in an orientation it is permitted.
FitsEmpty(b, l, w) ==
    \/ b.length <= l /\ b.width <= w
    \/ b.rotationAllowed = "true" /\ b.width <= l /\ b.length <= w

Placeable(b) == FitsEmpty(b, SHEET_LENGTH, SHEET_WIDTH)

\* Number of pieces of the outcome that belong to the board with this id.
PlacedCount(id) ==
    Sum([i \in 1..Len(result.sheets) |->
            Cardinality({k \in 1..Len(result.sheets[i].boards) :
                            result.sheets[i].boards[k].board.id = id})])

\* Number of entries of the outcome's unplaceable list with this id.
UnplacedCount(id) ==
    Cardinality({k \in 1..Len(unplacedOf(result)) : unplacedOf(result)[k].id = id})

\* Positions of the units of allBoards that were / were not placed.
UnitPlaceable(k) == Placeable(allBoards[k].board)

\* ------------------------------------------------------------------------
\* C1: on every sheet of the outcome no two placed pieces overlap (their
\* post-rotation rectangles share no interior point; touching edges are fine).
C1_NoOverlap ==
    Done =>
        \A i \in 1..Len(result.sheets) :
            \A j, k \in 1..Len(result.sheets[i].boards) :
                j # k => ~PiecesOverlap(result.sheets[i].boards[j],
                                        result.sheets[i].boards[k])

\* An outcome with a sheet of three pieces, two of them touching along an edge.
C1_Witness ==
    /\ Done
    /\ \E i \in 1..Len(result.sheets) :
          /\ Len(result.sheets[i].boards) >= 3
          /\ \E j, k \in 1..Len(result.sheets[i].boards) :
                /\ j # k
                /\ result.sheets[i].boards[j].x + ExtX(result.sheets[i].boards[j])
                     = result.sheets[i].boards[k].x
                /\ result.sheets[i].boards[j].y = result.sheets[i].boards[k].y

\* C2: every rectangle committed on a Sheet lies within the sheet, and so
\* does every placed piece of every outcome sheet in its post-rotation extents.
C2_WithinSheet ==
    /\ currentSheet # Null =>
          \A i \in 1..Len(currentSheet.usedRects) :
              LET rect == currentSheet.usedRects[i]
              IN  /\ rect.x >= 0
                  /\ rect.y >= 0
                  /\ rect.x + rect.width <= currentSheet.width
                  /\ rect.y + rect.height <= currentSheet.height
    /\ Done =>
          \A i \in 1..Len(result.sheets) :
              \A k \in 1..Len(result.sheets[i].boards) :
                  LET pb == result.sheets[i].boards[k]
                  IN  /\ pb.x >= 0
                      /\ pb.y >= 0
                      /\ pb.x + ExtX(pb) <= SHEET_LENGTH
                      /\ pb.y + ExtY(pb) <= SHEET_WIDTH

\* A Sheet after placeBoard calls whose last rectangle ends exactly at the
\* right edge and starts away from the origin.
C2_Witness ==
    /\ pc = "sheet"
    /\ Len(currentSheet.usedRects) >= 2
    /\ LET rect == currentSheet.usedRects[Len(currentSheet.usedRects)]
       IN  rect.x > 0 /\ rect.x + rect.width = currentSheet.width

\* C3: the number of placed units plus the quantities of the boards of the
\* unplaceable list equals the sum of the input quantities.
C3_EveryUnitAccounted ==
    Done =>
        result.totalBoardsPlaced
          + Sum([k \in 1..Len(unplacedOf(result)) |-> unplacedOf(result)[k].quantity])
        = Sum([i \in 1..Len(boards) |-> boards[i].quantity])

\* C4: a board is in the unplaceable list iff it has quantity >= 1 and goes
\* on an empty sheet in no permitted orientation; it is listed exactly once.
C4_UnplaceableListed ==
    Done =>
        \A i \in 1..Len(boards) :
            UnplacedCount(boards[i].id) =
                IF boards[i].quantity >= 1 /\ ~Placeable(boards[i]) THEN 1 ELSE 0

\* C5: every unit of a board that goes on an empty sheet in a permitted
\* orientation is placed, whatever unplaceable units are processed around it.
C5_PlaceableUnitsPlaced ==
    Done =>
        \A i \in 1..Len(boards) :
            Placeable(boards[i]) => PlacedCount(boards[i].id) = boards[i].quantity

\* An outcome in which pieces were placed after an unplaceable unit had
\* been dropped, with none of the placeable units missing.
C5_Witness ==
    /\ Done
    /\ \E k \in 1..(Len(allBoards) - 1) :
          ~UnitPlaceable(k) /\ UnitPlaceable(k + 1)
    /\ result.totalBoardsPlaced >= 2
    /\ result.totalBoardsPlaced < Len(allBoards)

\* C6: a piece whose board does not have rotationAllowed = true is never
\* reported with rotated = true.
C6_NoForbiddenRotation ==
    Done =>
        \A i \in 1..Len(result.sheets) :
            \A k \in 1..Len(result.sheets[i].boards) :
                result.sheets[i].boards[k].rotated
                    => result.sheets[i].boards[k].board.rotationAllowed = "true"

\* An outcome for an input with a board that leaves rotationAllowed out and
\* would fit only swapped, next to a piece that was rotated.
C6_Witness ==
    /\ Done
    /\ \E i \in 1..Len(boards) :
          /\ boards[i].rotationAllowed = "undefined"
          /\ boards[i].quantity >= 1
          /\ ~Placeable(boards[i])
          /\ boards[i].width <= SHEET_LENGTH /\ boards[i].length <= SHEET_WIDTH
    /\ \E i \in 1..Len(result.sheets) :
          \E k \in 1..Len(result.sheets[i].boards) :
              result.sheets[i].boards[k].rotated

\* C7: when a sheet length and width are passed, the boards are packed
\* against them: every placed piece lies within the passed extents.
C7_PacksAgainstPassedExtents ==
    (Done /\ args # << >>) =>
        \A i \in 1..Len(result.sheets) :
            \A k \in 1..Len(result.sheets[i].boards) :
                LET pb == result.sheets[i].boards[k]
                IN  pb.x + ExtX(pb) <= args[1] /\ pb.y + ExtY(pb) <= args[2]

\* C8: the waste of every outcome sheet is the sheet area minus the areas
\* (length x width) of its pieces, and 0 <= waste < sheet area.
C8_Waste ==
    Done =>
        \A i \in 1..Len(result.sheets) :
            LET sh == result.sheets[i]
                area == SHEET_LENGTH * SHEET_WIDTH
            IN  /\ sh.waste = area - Sum([k \in 1..Len(sh.boards) |->
                                  sh.boards[k].board.length * sh.boards[k].board.width])
                /\ 0 <= sh.waste
                /\ sh.waste < area

\* An outcome of two sheets, the first closed with a rotated piece on it.
C8_Witness ==
    /\ Done
    /\ Len(result.sheets) >= 2
    /\ Len(result.sheets[1].boards) >= 2
    /\ \E k \in 1..Len(result.sheets[1].boards) : result.sheets[1].boards[k].rotated

\* The positions findSpace may return for a w x h rectangle: the origin, the
\* point right of a committed rectangle when w still fits the sheet width from
\* there, the point above one when h still fits the sheet height from there;
\* each in bounds and overlapping no committed rectangle.
QualifyingPositions(sheet, w, h) ==
    LET rs == sheet.usedRects
        points ==
            {<<0, 0>>}
            \cup {<<rs[i].x + rs[i].width, rs[i].y>> :
                     i \in {j \in 1..Len(rs) : rs[j].x + rs[j].width + w <= sheet.width}}
            \cup {<<rs[i].x, rs[i].y + rs[i].height>> :
                     i \in {j \in 1..Len(rs) : rs[j].y + rs[j].height + h <= sheet.height}}
    IN  {p \in points :
            /\ p[1] + w <= sheet.width
            /\ p[2] + h <= sheet.height
            /\ \A i \in 1..Len(rs) :
                  ~InteriorsMeet(p[1], p[2], w, h,
                                 rs[i].x, rs[i].y, rs[i].width, rs[i].height)}

PlaceBoardCalled == pc = "sheet" /\ call # Null /\ call.op = "placeBoard"

\* C9: a successful placeBoard appends exactly one rectangle, equal to the
\* returned position and to the board's extents in the returned orientation,
\* and keeps the earlier ones; a failing placeBoard leaves the sheet as it was.
C9_PlaceBoardAtomic ==
    PlaceBoardCalled =>
        IF call.result = Null
        THEN currentSheet = call.before
        ELSE /\ currentSheet.usedRects
                  = Append(call.before.usedRects, call.result.position)
             /\ currentSheet.width = call.before.width
             /\ currentSheet.height = call.before.height
             /\ call.result.position.width
                  = (IF call.result.rotated THEN call.boardWidth ELSE call.boardLength)
             /\ call.result.position.height
                  = (IF call.result.rotated THEN call.boardLength ELSE call.boardWidth)

\* A rotated placement of a non-square board on a sheet that held rectangles.
C9_Witness ==
    /\ PlaceBoardCalled
    /\ call.result # Null
    /\ call.result.rotated
    /\ call.boardLength # call.boardWidth
    /\ Len(call.before.usedRects) >= 1

\* C10: rotated = true is returned only when the natural orientation had no
\* qualifying position on the sheet, and whenever the natural orientation has
\* one the result is rotated = false.
C10_NaturalFirst ==
    PlaceBoardCalled =>
        LET natural == QualifyingPositions(call.before, call.boardLength, call.boardWidth)
        IN  /\ (call.result # Null /\ call.result.rotated) => natural = {}
            /\ natural # {} => (call.result # Null /\ ~call.result.rotated)

\* A board placed unrotated on a non-empty sheet where the swapped
\* orientation had a qualifying position too.
C10_Witness ==
    /\ PlaceBoardCalled
    /\ call.result # Null
    /\ ~call.result.rotated
    /\ call.rotationAllowed
    /\ call.boardLength # call.boardWidth
    /\ Len(call.before.usedRects) >= 1
    /\ QualifyingPositions(call.before, call.boardWidth, call.boardLength) # {}

\* The placed pieces of the outcome, sheet by sheet, in placement order.
RECURSIVE PiecesFrom(_)
PiecesFrom(i) ==
    IF i > Len(result.sheets) THEN << >>
    ELSE result.sheets[i].boards \o PiecesFrom(i + 1)

Area(b) == b.length * b.width

\* Areas never increase along the list of boards bs, and of two neighbours of
\* equal area the one whose board comes first in the input comes first.
DescendingStable(bs) ==
    \A k \in 1..(Len(bs) - 1) :
        /\ Area(bs[k]) >= Area(bs[k + 1])
        /\ Area(bs[k]) = Area(bs[k + 1]) => bs[k].id <= bs[k + 1].id

\* C11: the units are processed in order of descending area, units of equal
\* area in the input order of their boards; the placed pieces read sheet by
\* sheet show the same order.
C11_DescendingAreaOrder ==
    /\ pc \in {"loop", "done"} =>
          DescendingStable([k \in 1..Len(allBoards) |-> allBoards[k].board])
    /\ Done =>
          DescendingStable([k \in 1..Len(PiecesFrom(1)) |-> PiecesFrom(1)[k].board])

\* An outcome for two boards given smallest first, with pieces of both placed
\* and a piece of the second board having an equal-area successor.
C11_Witness ==
    /\ Done
    /\ Len(boards) = 2
    /\ Area(boards[1]) < Area(boards[2])
    /\ boards[2].quantity = 2
    /\ PlacedCount(1) >= 1
    /\ PlacedCount(2) = 2
    /\ Len(result.sheets) >= 2

\* The board has a position on the sheet in an orientation it is permitted.
HasPosition(sheet, b) ==
    \/ QualifyingPositions(sheet, b.length, b.width) # {}
    \/ b.rotationAllowed = "true" /\ QualifyingPositions(sheet, b.width, b.length) # {}

\* The SheetLayout of a sheet closed with the pieces pbs on it.
ClosedSheet(pbs) ==
    [boards |-> pbs,
     waste |-> SHEET_LENGTH * SHEET_WIDTH
                 - Sum([k \in 1..Len(pbs) |-> Area(pbs[k].board)])]

\* What one step of the run does to the sheets, as C12 states it.
C12_Step ==
    /\ (pc = "loop" /\ pc' = "loop") =>
          LET b == allBoards[next].board
          IN  IF HasPosition(currentSheet, b)
              THEN /\ sheets' = sheets
                   /\ Len(placedBoards') = Len(placedBoards) + 1
                   /\ placedBoards'[Len(placedBoards')].board = b
              ELSE /\ sheets' = IF Len(placedBoards) >= 1
                                THEN Append(sheets, ClosedSheet(placedBoards))
                                ELSE sheets
                   /\ currentSheet'.usedRects
                        = [k \in 1..Len(placedBoards') |->
                              [x |-> 0, y |-> 0,
                               width |-> ExtX(placedBoards'[k]),
                               height |-> ExtY(placedBoards'[k])]]
                   /\ IF Placeable(b)
                      THEN /\ Len(placedBoards') = 1
                           /\ placedBoards'[1].board = b
                           /\ placedBoards'[1].x = 0 /\ placedBoards'[1].y = 0
                      ELSE placedBoards' = << >>
    /\ (pc = "loop" /\ pc' = "done") =>
          result'.sheets = IF Len(placedBoards) >= 1
                           THEN Append(sheets, ClosedSheet(placedBoards))
                           ELSE sheets
    /\ pc' \in {"loop", "done"} =>
          \A i \in 1..Len(sheets') : Len(sheets'[i].boards) >= 1
    /\ pc = "loop" =>
          /\ Len(sheets') >= Len(sheets)
          /\ SubSeq(sheets', 1, Len(sheets)) = sheets

\* C12: a unit that fails on a sheet holding >= 1 piece closes that sheet and
\* is retried once on a fresh sheet; at the end a sheet holding >= 1 piece is
\* closed too; sheets are appended in the order they were opened and no sheet
\* of the outcome has an empty piece list.
C12_CloseAndRetry == [][C12_Step]_vars

\* An outcome of two sheets whose last unit failed on the second sheet and on
\* the fresh one opened for it, so that the run ended on an empty sheet.
C12_Witness ==
    /\ Done
    /\ Len(result.sheets) = 2
    /\ Len(allBoards) >= 3
    /\ ~UnitPlaceable(Len(allBoards))
    /\ placedBoards = << >>

\* C13: in every outcome boardsPerSheet has the length of sheets and its i-th
\* entry is the number of pieces of sheets[i], totalBoardsPlaced is the sum of
\* boardsPerSheet and totalWaste is the sum of the sheets' waste values.
C13_Statistics ==
    Done =>
        /\ Len(result.boardsPerSheet) = Len(result.sheets)
        /\ \A i \in 1..Len(result.sheets) :
              result.boardsPerSheet[i] = Len(result.sheets[i].boards)
        /\ result.totalBoardsPlaced = Sum(result.boardsPerSheet)
        /\ result.totalWaste
             = Sum([i \in 1..Len(result.sheets) |-> result.sheets[i].waste])

\* An outcome of two sheets with different piece counts and different waste.
C13_Witness ==
    /\ Done
    /\ Len(result.sheets) = 2
    /\ Len(result.sheets[1].boards) > Len(result.sheets[2].boards)
    /\ result.sheets[1].waste > 0
    /\ result.sheets[1].waste # result.sheets[2].waste

\* The input list without the boards of quantity <= 0.
WithUnits(bs) == SelectSeq(bs, LAMBDA b : b.quantity > 0)

OnlySwappedFits(b) ==
    /\ ~(b.length <= SHEET_LENGTH /\ b.width <= SHEET_WIDTH)
    /\ b.width <= SHEET_LENGTH /\ b.length <= SHEET_WIDTH

C17_ForbiddenRotationUnplaced ==
    (Done /\ args = << >>) =>
        /\ \A i \in 1..Len(boards) :
              (/\ boards[i].rotationAllowed # "true"
               /\ boards[i].quantity >= 1
               /\ ~(boards[i].length <= SHEET_LENGTH /\ boards[i].width <= SHEET_WIDTH)) =>
                    PlacedCount(i) = 0 /\ UnplacedCount(i) = 1
        /\ (/\ Len(boards) = 1
            /\ boards[1].rotationAllowed # "true"
            /\ boards[1].quantity = 1
            /\ ~(boards[1].length <= SHEET_LENGTH /\ boards[1].width <= SHEET_WIDTH)) =>
                 Len(unplacedOf(result)) = 1 /\ result.sheets = << >>

\* The input is n identical rotation-allowed squares of quantity 1 whose side
\* divides both sheet extents.
IdenticalSquares ==
    /\ Len(boards) >= 1
    /\ SHEET_LENGTH % boards[1].length = 0
    /\ SHEET_WIDTH % boards[1].length = 0
    /\ \A i \in 1..Len(boards) :
          /\ boards[i].length = boards[1].length
          /\ boards[i].width = boards[1].length
          /\ boards[i].quantity = 1
          /\ boards[i].rotationAllowed = "true"

\* Squares of this side that tile one sheet.
SquaresPerSheet(side) == (SHEET_LENGTH \div side) * (SHEET_WIDTH \div side)

C19_Step ==
    /\ pc \in {"call", "loop"} => boards' = boards /\ args' = args
    /\ pc' = "done" =>
          /\ result' = optimizePlacement(boards')
          /\ \A p \in Returned :
                (p.boards = boards' /\ p.args = args') => p.result = result'

\* C19: a call's outcome is a function of its board list alone, so a call made
\* on the boards and sheet dimensions of an earlier call returns the earlier
\* outcome whatever calls ran before or between them, and while a call runs
\* the caller's board list keeps its order and contents.
C19_PureFunction == [][C19_Step]_vars

\* A third call repeats the first, on a list the sort reorders, after a
\* different call that left sheets behind.
C19_Witness ==
    /\ Done
    /\ Cardinality(Returned) = 2
    /\ Len(boards) = 2
    /\ Area(boards[1]) < Area(boards[2])
    /\ Len(result.sheets) = 2
    /\ \E p, q \in Returned :
          /\ p.boards = boards /\ p.args = args /\ p.result = result
          /\ q.boards # boards /\ Len(q.result.sheets) = 2

\* C20: a call whose input has a board of length or width <= 0, or a sheet
\* extent <= 0, returns no outcome: every returned outcome comes from boards
\* of positive length and width and positive sheet extents, and none of its
\* pieces has a non-positive length or width.
C20_RejectsNonPositive ==
    Done =>
        /\ \A i \in 1..Len(boards) : boards[i].length > 0 /\ boards[i].width > 0
        /\ \A k \in 1..Len(args) : args[k] > 0
        /\ \A i \in 1..Len(result.sheets) :
              \A k \in 1..Len(result.sheets[i].boards) :
                  /\ result.sheets[i].boards[k].board.length > 0
                  /\ result.sheets[i].boards[k].board.width > 0

\* ------------------------------------------------------------------------
\* App and CutListForm: the host of optimizePlacement
\*
\* boards is App's boards state, args its <<sheetLength, sheetWidth>>, result
\* the value of its useMemo; `call` holds the rest of the host's state.

\* The boards both components start with.
DefaultBoards ==
    << [id |-> 1, length |-> 24, width |-> 12, quantity |-> 4,
        rotationAllowed |-> "false"],
       [id |-> 2, length |-> 48, width |-> 12, quantity |-> 2,
        rotationAllowed |-> "false"] >>

\* parseFloat of what can be typed into a length or width input.
FormDims == {0, 100}

\* parseInt of what can be typed into a quantity input.
FormQuantities == {1}

\* e.target.checked of the Allow Rotation checkbox of the add form.
FormRotations == {"true"}

\* parseFloat(e.target.value) || 0 of what can be typed into a sheet size input.
SheetSizeInputs == {0}

\* Contents of the files offered to the import: JSON.parse gives an array or
\* not, and each item has its typeof id / length / width / quantity.
ImportFiles ==
    { [isArray |-> FALSE, items |-> << >>],
      [isArray |-> TRUE,
       items |-> << [typeofId |-> "string", typeofNumbers |-> "number",
                     board |-> [id |-> 1, length |-> 48, width |-> 48,
                                quantity |-> 4, rotationAllowed |-> "false"]],
                    [typeofId |-> "string", typeofNumbers |-> "number",
                     board |-> [id |-> 1, length |-> 0, width |-> 12,
                                quantity |-> 1, rotationAllowed |-> "true"]] >>],
      [isArray |-> TRUE,
       items |-> << [typeofId |-> "string", typeofNumbers |-> "string",
                     board |-> [id |-> 1, length |-> 48, width |-> 48,
                                quantity |-> 1, rotationAllowed |-> "false"]] >>] }

currentSheetIndex == call.currentSheetIndex

formBoards == call.formBoards

reading == call.reading

Host(idx, form, rd) ==
    [op |-> "App", currentSheetIndex |-> idx, formBoards |-> form, reading |-> rd]

\* useMemo(() => boards.length === 0 ? null : optimizePlacement(boards, ...))
memo(bs) == IF Len(bs) = 0 THEN Null ELSE optimizePlacement(bs)

\* result && result.sheets.length > 0: the results column is rendered
Rendered == result # Null /\ Len(result.sheets) > 0

AppInit ==
    /\ boards = DefaultBoards
    /\ args = <<96, 48>>
    /\ result = memo(DefaultBoards)
    /\ call = Host(0, DefaultBoards, {})
    /\ allBoards = << >>
    /\ next = 1
    /\ currentSheet = Null
    /\ placedBoards = << >>
    /\ sheets = << >>
    /\ pc = "app"

\* Variant: handleBoardsUpdated leaves currentSheetIndex as it is.
BoardsUpdated_KeepIndex(updatedBoards, rd) ==
    /\ boards' = updatedBoards
    /\ result' = memo(updatedBoards)
    /\ call' = Host(currentSheetIndex, updatedBoards, rd)
    /\ UNCHANGED <<args, allBoards, next, currentSheet, placedBoards, sheets, pc>>

\* setBoards(updatedBoards); onBoardsUpdated(updatedBoards) in the form, and
\* handleBoardsUpdated with the re-render in App.
BoardsUpdated(updatedBoards, rd) ==
    /\ boards' = updatedBoards
    /\ result' = memo(updatedBoards)
    /\ call' = Host(0, updatedBoards, rd)
    /\ UNCHANGED <<args, allBoards, next, currentSheet, placedBoards, sheets, pc>>

\* Date.now().toString(): later than every id handed out before.
newId(form) ==
    IF Len(form) = 0 THEN 1
    ELSE 1 + CHOOSE m \in {form[k].id : k \in 1..Len(form)} :
                 \A k \in 1..Len(form) : form[k].id <= m

handleAddBoard ==
    /\ pc = "app"
    /\ Len(formBoards) < MaxBoards
    /\ newId(formBoards) <= MaxId
    /\ \E l \in FormDims, w \in FormDims, q \in FormQuantities, r \in FormRotations :
          BoardsUpdated(Append(formBoards,
                               [id |-> newId(formBoards), length |-> l,
                                width |-> w, quantity |-> q,
                                rotationAllowed |-> r]),
                        reading)

handleRemoveBoard ==
    /\ pc = "app"
    /\ \E k \in 1..Len(formBoards) :
          BoardsUpdated(SelectSeq(formBoards, LAMBDA b : b.id # formBoards[k].id),
                        reading)

\* boards.map(b => b.id === id ? { ...b, [field]: value } : b)
updateField(form, id, field, value) ==
    [k \in 1..Len(form) |->
        IF form[k].id = id THEN [form[k] EXCEPT ![field] = value] ELSE form[k]]

handleUpdateBoard ==
    /\ pc = "app"
    /\ \E k \in 1..Len(formBoards) :
          \/ \E v \in FormDims :
                \/ BoardsUpdated(updateField(formBoards, formBoards[k].id, "length", v),
                                 reading)
                \/ BoardsUpdated(updateField(formBoards, formBoards[k].id, "width", v),
                                 reading)
          \/ \E v \in FormQuantities :
                BoardsUpdated(updateField(formBoards, formBoards[k].id, "quantity", v),
                              reading)

\* Variant: a confirmed clear empties the form's list and does not call
\* onBoardsUpdated.
handleClearList_FormOnly ==
    /\ pc = "app"
    /\ Len(formBoards) > 0
    /\ \/ /\ call' = Host(currentSheetIndex, << >>, reading)
          /\ UNCHANGED <<boards, args, allBoards, next, currentSheet,
                         placedBoards, sheets, result, pc>>
       \/ UNCHANGED vars

\* The Clear All button, shown while the form has boards; window.confirm
\* answers either way.
handleClearList ==
    /\ pc = "app"
    /\ Len(formBoards) > 0
    /\ \/ BoardsUpdated(<< >>, reading)
       \/ UNCHANGED vars

\* reader.readAsText(file): the read is in flight.
handleImportList ==
    /\ pc = "app"
    /\ Cardinality(reading) < MaxReading
    /\ \E file \in ImportFiles \ reading :
          call' = Host(currentSheetIndex, formBoards, reading \cup {file})
    /\ UNCHANGED <<boards, args, allBoards, next, currentSheet, placedBoards,
                   sheets, result, pc>>

\* The checks of reader.onload that do not throw.
validImport(file) ==
    /\ file.isArray
    /\ \A k \in 1..Len(file.items) :
          file.items[k].typeofId = "string" /\ file.items[k].typeofNumbers = "number"

\* reader.onload
readerOnload ==
    /\ pc = "app"
    /\ \E file \in reading :
          IF validImport(file)
          THEN BoardsUpdated([k \in 1..Len(file.items) |-> file.items[k].board],
                             reading \ {file})
          ELSE /\ call' = Host(currentSheetIndex, formBoards, reading \ {file})
               /\ UNCHANGED <<boards, args, allBoards, next, currentSheet,
                              placedBoards, sheets, result, pc>>

\* setSheetLength(parseFloat(e.target.value) || 0)
setSheetLength ==
    /\ pc = "app"
    /\ \E v \in SheetSizeInputs : args' = <<v, args[2]>>
    /\ result' = memo(boards)
    /\ UNCHANGED <<boards, allBoards, next, currentSheet, placedBoards, sheets,
                   pc, call>>

\* setSheetWidth(parseFloat(e.target.value) || 0)
setSheetWidth ==
    /\ pc = "app"
    /\ \E v \in SheetSizeInputs : args' = <<args[1], v>>
    /\ result' = memo(boards)
    /\ UNCHANGED <<boards, allBoards, next, currentSheet, placedBoards, sheets,
                   pc, call>>

\* The Previous button, enabled unless currentSheetIndex === 0.
previousSheet ==
    /\ pc = "app"
    /\ Rendered
    /\ currentSheetIndex # 0
    /\ call' = Host(IF currentSheetIndex - 1 > 0 THEN currentSheetIndex - 1 ELSE 0,
                    formBoards, reading)
    /\ UNCHANGED <<boards, args, allBoards, next, currentSheet, placedBoards,
                   sheets, result, pc>>

\* The Next button, enabled unless currentSheetIndex === result.sheets.length - 1.
nextSheet ==
    /\ pc = "app"
    /\ Rendered
    /\ currentSheetIndex # Len(result.sheets) - 1
    /\ call' = Host(IF currentSheetIndex + 1 < Len(result.sheets) - 1
                    THEN currentSheetIndex + 1
                    ELSE Len(result.sheets) - 1,
                    formBoards, reading)
    /\ UNCHANGED <<boards, args, allBoards, next, currentSheet, placedBoards,
                   sheets, result, pc>>

\* A click on an item of the breakdown grid.
selectSheet ==
    /\ pc = "app"
    /\ Rendered
    /\ \E idx \in 0..(Len(result.sheets) - 1) :
          call' = Host(idx, formBoards, reading)
    /\ UNCHANGED <<boards, args, allBoards, next, currentSheet, placedBoards,
                   sheets, result, pc>>

AppNext ==
    \/ handleAddBoard \/ handleRemoveBoard \/ handleUpdateBoard
    \/ handleClearList \/ handleImportList \/ readerOnload
    \/ setSheetLength \/ setSheetWidth
    \/ previousSheet \/ nextSheet \/ selectSheet

AppSpec == AppInit /\ [][AppNext]_vars

\* boards.reduce((sum, b) => sum + b.length * b.width * b.quantity, 0)
totalArea ==
    Sum([k \in 1..Len(boards) |->
            boards[k].length * boards[k].width * boards[k].quantity])

requiredSheets == IF result # Null THEN Len(result.sheets) ELSE 0

sheetArea == args[1] * args[2]

\* Area of the pieces placed on the sheets of the result.
PlacedArea == Sum([k \in 1..Len(PiecesFrom(1)) |-> Area(PiecesFrom(1)[k].board)])

\* C21: whenever the App shows the Material Efficiency, its numerator
\* totalArea equals the area of the pieces placed on the sheets and is at most
\* requiredSheets x sheetArea, so the figure is at most 100%.  Stated for the
\* default 96 x 48 sheet and boards of positive length, width and quantity.
C21_EfficiencyAtMost100 ==
    (/\ pc = "app"
     /\ Rendered
     /\ args = <<SHEET_LENGTH, SHEET_WIDTH>>
     /\ \A k \in 1..Len(boards) :
           boards[k].length > 0 /\ boards[k].width > 0 /\ boards[k].quantity > 0) =>
        /\ totalArea = PlacedArea
        /\ totalArea <= requiredSheets * sheetArea

\* The points C22 lists as the candidates of findSpace(w, h).
CandidatePoints(sheet, w, h) ==
    LET rs == sheet.usedRects
    IN  {<<0, 0>>}
        \cup {<<rs[i].x + rs[i].width, rs[i].y>> :
                 i \in {j \in 1..Len(rs) : rs[j].x + rs[j].width + w <= sheet.width}}
        \cup {<<rs[i].x, rs[i].y + rs[i].height>> :
                 i \in {j \in 1..Len(rs) : rs[j].y + rs[j].height + h <= sheet.height}}

\* The point of S with the smallest y, and the smallest x among those.
LowestLeftmost(S) ==
    CHOOSE p \in S : \A q \in S : p[2] < q[2] \/ (p[2] = q[2] /\ p[1] <= q[1])

\* C22: findSpace(w, h) considers exactly the origin and the right-edge and
\* top-edge points of the committed rectangles from which w, resp. h, still
\* fits the sheet; it returns the lowest, then leftmost, of those that are in
\* bounds and overlap no committed rectangle, and null iff there is none.
C22_FindSpaceBottomLeft ==
    pc = "sheet" =>
        \A w \in Dims, h \in Dims :
            LET cs == candidates(currentSheet, w, h)
                q == QualifyingPositions(currentSheet, w, h)
                f == findSpace(currentSheet, w, h)
            IN  /\ {<<cs[k].x, cs[k].y>> : k \in 1..Len(cs)}
                     = CandidatePoints(currentSheet, w, h)
                /\ q \subseteq CandidatePoints(currentSheet, w, h)
                /\ IF q = {}
                   THEN f = Null
                   ELSE f = [x |-> LowestLeftmost(q)[1], y |-> LowestLeftmost(q)[2],
                             width |-> w, height |-> h]

\* A sheet of three rectangles on which one rectangle has qualifying
\* candidates on two rows and another, no larger than the sheet, has none.
C22_Witness ==
    /\ pc = "sheet"
    /\ Len(currentSheet.usedRects) = 3
    /\ \E w \in Dims, h \in Dims :
          \E p, q \in QualifyingPositions(currentSheet, w, h) :
              p[2] < q[2] /\ q[1] < p[1]
    /\ \E w \in Dims, h \in Dims :
          /\ w <= currentSheet.width /\ h <= currentSheet.height
          /\ QualifyingPositions(currentSheet, w, h) = {}

\* ------------------------------------------------------------------------
\* Calls of Sheet.rectsOverlap on two rectangles

RectCoords == {0, 12, 24}

RectExtents == {-12, 12, 24}

Rects == [x : RectCoords, y : RectCoords, width : RectExtents, height : RectExtents]

OverlapInit ==
    /\ \E a \in Rects, b \in Rects :
          call = [op |-> "rectsOverlap", a |-> a, b |-> b, result |-> Null]
    /\ pc = "overlap"
    /\ boards = << >>
    /\ args = << >>
    /\ allBoards = << >>
    /\ next = 1
    /\ currentSheet = NewSheet(SHEET_LENGTH, SHEET_WIDTH)
    /\ placedBoards = << >>
    /\ sheets = << >>
    /\ result = Null

\* this.rectsOverlap(a.x, a.y, a.width, a.height, b.x, b.y, b.width, b.height)
RectsOverlapCall ==
    /\ pc = "overlap"
    /\ call' = [call EXCEPT !.result =
                   [value |-> rectsOverlap(call.a.x, call.a.y, call.a.width,
                                           call.a.height, call.b.x, call.b.y,
                                           call.b.width, call.b.height)]]
    /\ pc' = "overlapped"
    /\ UNCHANGED <<boards, args, allBoards, next, currentSheet, placedBoards,
                   sheets, result>>

OverlapSpec == OverlapInit /\ [][RectsOverlapCall]_vars

Positive(r) == r.width > 0 /\ r.height > 0

\* C23: rectsOverlap(A, B) is A.x < B.x+B.w and A.x+A.w > B.x and
\* A.y < B.y+B.h and A.y+A.h > B.y; for rectangles of positive extents it is
\* symmetric, true exactly when the interiors intersect, and false for
\* rectangles that only share an edge or a corner.
C23_RectsOverlap ==
    pc = "overlapped" =>
        LET a == call.a
            b == call.b
        IN  /\ call.result.value
                 = (/\ a.x < b.x + b.width /\ a.x + a.width > b.x
                    /\ a.y < b.y + b.height /\ a.y + a.height > b.y)
            /\ (Positive(a) /\ Positive(b)) =>
                  /\ call.result.value
                       = rectsOverlap(b.x, b.y, b.width, b.height,
                                      a.x, a.y, a.width, a.height)
                  /\ call.result.value
                       = InteriorsMeet(a.x, a.y, a.width, a.height,
                                       b.x, b.y, b.width, b.height)
                  /\ (\/ a.x + a.width = b.x \/ b.x + b.width = a.x
                      \/ a.y + a.height = b.y \/ b.y + b.height = a.y) =>
                        ~call.result.value

\* Two rectangles of positive extents that share a stretch of an edge.
C23_Witness ==
    /\ pc = "overlapped"
    /\ Positive(call.a) /\ Positive(call.b)
    /\ call.a.x + call.a.width = call.b.x
    /\ call.a.y < call.b.y + call.b.height
    /\ call.b.y < call.a.y + call.a.height
    /\ ~call.result.value

\* ------------------------------------------------------------------------
\* One call on up to MaxMixed boards, some of which fit the sheet in no
\* permitted orientation

MixedShapes ==
    [length : {36, 60, 100}, width : {24, 48}, quantity : 1..MaxQuantity,
     rotationAllowed : {"false"}]

MixedInit ==
    /\ \E n \in 0..MaxMixed :
          \E f \in [1..n -> MixedShapes] : boards = boardList(f, n)
    /\ args = << >>
    /\ allBoards = << >>
    /\ next = 1
    /\ currentSheet = Null
    /\ placedBoards = << >>
    /\ sheets = << >>
    /\ result = Null
    /\ pc = "call"
    /\ call = Null

MixedSpec == MixedInit /\ [][Next]_vars

\* The piece lists of the sheets of an outcome.
Plan(res) == [i \in 1..Len(res.sheets) |-> res.sheets[i].boards]

\* C24: the sheet, position and orientation of every placed unit, and the
\* number of sheets, are those of the outcome for the input without the
\* boards that fit the sheet in no permitted orientation.
C24_UnplaceableIsolated ==
    Done => Plan(result) = Plan(optimizePlacement(SelectSeq(boards, Placeable)))

\* ------------------------------------------------------------------------
\* One call on up to MaxMixed boards of extents that leave gaps

GapShapes ==
    [length : {12, 48, 60}, width : {12, 24, 36}, quantity : {1},
     rotationAllowed : {"false"}]

GapInit ==
    /\ \E n \in 0..MaxMixed :
          \E f \in [1..n -> GapShapes] : boards = boardList(f, n)
    /\ args = << >>
    /\ allBoards = << >>
    /\ next = 1
    /\ currentSheet = Null
    /\ placedBoards = << >>
    /\ sheets = << >>
    /\ result = Null
    /\ pc = "call"
    /\ call = Null

GapSpec == GapInit /\ [][Next]_vars

\* The sheet as it was when a sheet of the outcome with these pieces was closed.
SheetOf(pbs) ==
    [width |-> SHEET_LENGTH, height |-> SHEET_WIDTH,
     usedRects |-> [k \in 1..Len(pbs) |->
                       [x |-> pbs[k].x, y |-> pbs[k].y,
                        width |-> ExtX(pbs[k]), height |-> ExtY(pbs[k])]]]

\* The positions on the 12-inch grid where a w x h rectangle is in bounds and
\* overlaps no committed rectangle of the sheet.
FreePositions(sheet, w, h) ==
    {p \in {12 * k : k \in 0..(sheet.width \div 12)}
             \X {12 * k : k \in 0..(sheet.height \div 12)} :
        /\ p[1] + w <= sheet.width
        /\ p[2] + h <= sheet.height
        /\ \A i \in 1..Len(sheet.usedRects) :
              ~InteriorsMeet(p[1], p[2], w, h,
                             sheet.usedRects[i].x, sheet.usedRects[i].y,
                             sheet.usedRects[i].width, sheet.usedRects[i].height)}

\* C25: the space search is a heuristic: a unit goes to a new sheet exactly
\* because none of the generated candidates qualifies on the current one,
\* whether or not the sheet has a free position for it.  With boards that all
\* fit an empty sheet, the first piece of every sheet after the first had no
\* qualifying candidate on the sheet before it.
C25_NullWithoutCandidate ==
    (Done /\ \A k \in 1..Len(allBoards) : UnitPlaceable(k)) =>
        \A i \in 2..Len(result.sheets) :
            ~HasPosition(SheetOf(result.sheets[i - 1].boards),
                         result.sheets[i].boards[1].board)

\* A unit opened a second sheet although the first had a free position for
\* it in its natural orientation, which is not a candidate.
C25_Witness ==
    /\ Done
    /\ \A k \in 1..Len(allBoards) : UnitPlaceable(k)
    /\ Len(result.sheets) = 2
    /\ FreePositions(SheetOf(result.sheets[1].boards),
                     result.sheets[2].boards[1].board.length,
                     result.sheets[2].boards[1].board.width) # {}
    /\ FreePositions(SheetOf(result.sheets[1].boards),
                     result.sheets[2].boards[1].board.length,
                     result.sheets[2].boards[1].board.width)
         \cap CandidatePoints(SheetOf(result.sheets[1].boards),
                              result.sheets[2].boards[1].board.length,
                              result.sheets[2].boards[1].board.width) = {}

\* What C26 asks of every step of a run.
C26_Step ==
    /\ pc = "loop" =>
          /\ \A i \in 1..Len(sheets) : i <= Len(sheets') /\ sheets'[i] = sheets[i]
          /\ pc' = "loop" =>
                \/ placedBoards' \in {placedBoards, << >>}
                \/ /\ Len(placedBoards') >= 1
                   /\ placedBoards'[Len(placedBoards')].board = allBoards[next].board
                   /\ SubSeq(placedBoards', 1, Len(placedBoards') - 1)
                        \in {placedBoards, << >>}
                   /\ currentSheet' = SheetOf(placedBoards')
    /\ pc' = "done" =>
          [k \in 1..Len(PiecesFrom(1)') |-> PiecesFrom(1)'[k].board]
            = SelectSeq([k \in 1..Len(allBoards) |-> allBoards[k].board], Placeable)

\* C26: a unit is placed on the sheet opened last and on no other, so the
\* sheets of the outcome, read in order, hold the placed units in processing
\* order; a sheet appended to the list of closed sheets never changes.
C26_NextFit == [][C26_Step]_vars

\* A run that closed a sheet and went on to place two units on the next.
C26_Witness ==
    /\ pc = "loop"
    /\ Len(sheets) = 1
    /\ Len(sheets[1].boards) >= 1
    /\ Len(placedBoards) = 2
    /\ next = Len(allBoards) + 1

\* Sheet area minus the areas of the committed rectangles.
WasteOf(sheet) ==
    sheet.width * sheet.height
      - Sum([k \in 1..Len(sheet.usedRects) |->
                sheet.usedRects[k].width * sheet.usedRects[k].height])

\* What C27 asks of every call on a Sheet.
C27_Step ==
    pc = "sheet" =>
        /\ call'.op = "calculateWaste" =>
              /\ currentSheet' = currentSheet
              /\ call'.result = WasteOf(currentSheet)
              /\ (call # Null /\ call.op = "calculateWaste") =>
                    call'.result = call.result
        /\ (call'.op = "placeBoard" /\ call # Null /\ call.op = "calculateWaste") =>
              calculateWaste(currentSheet')
                = call.result
                    - (IF call'.result # Null
                       THEN call'.result.position.width * call'.result.position.height
                       ELSE 0)

\* C27: calculateWaste leaves the sheet's rectangles as they are and returns
\* the same value on every call until a placeBoard succeeds, after which it is
\* smaller by exactly the area of the placed rectangle.
C27_CalculateWastePure == [][C27_Step]_vars

\* calculateWaste has returned on a sheet holding two rectangles.
C27_Witness ==
    /\ pc = "sheet"
    /\ call # Null
    /\ call.op = "calculateWaste"
    /\ Len(currentSheet.usedRects) = 2
    /\ call.before = currentSheet
    /\ call.result = WasteOf(currentSheet)
    /\ call.result < SHEET_LENGTH * SHEET_WIDTH

\* C28: whatever the form operations and sheet-size edits, every board the
\* App hands to optimizePlacement has length > 0 and width > 0, and the sheet
\* length and width it hands over are > 0.
C28_HostValidates ==
    (pc = "app" /\ Len(boards) > 0) =>
        /\ \A k \in 1..Len(boards) : boards[k].length > 0 /\ boards[k].width > 0
        /\ args[1] > 0 /\ args[2] > 0

C30_ListsEqual == pc = "app" => boards = formBoards

\* A valid import has completed: both components hold the boards of the file,
\* two of them under one id.
C30_Witness ==
    /\ pc = "app"
    /\ reading = {}
    /\ Len(formBoards) = 2
    /\ formBoards[1].id = formBoards[2].id
    /\ \E file \in ImportFiles :
          /\ validImport(file)
          /\ formBoards = [k \in 1..Len(file.items) |-> file.items[k].board]
    /\ boards = formBoards

====
